---- MODULE Spec2Model ----
(***************************************************************************)
(* Round-robin kernel simulation (src/kernel.rs): the Kernel struct, its   *)
(* operations spawn_task, schedule, tick and handle_kernel_call, the       *)
(* hard-coded task scripts of simulate_task_logic and the driver main().   *)
(***************************************************************************)
EXTENDS Integers, Sequences, FiniteSets, TLC

\* ------------------------------------------------------------------ bounds
\* Spec: spawn_task is enabled while fewer than MaxTasks tasks were spawned.
MaxTasks == 3
\* Spec: tick is enabled while ticks < MaxTicks.
MaxTicks == 6
\* SpecLong: fewer tasks, enough ticks for a script to reach its Exit.
MaxLongTasks == 2
MaxLongTicks == 12
\* SpecMain: the driver loop calls tick while ticks < MaxRunTicks.
MaxRunTicks == 40
\* SpecAny: tasks with arbitrary scripts, and the ticks they are run for.
MaxAnyTasks == 3
MaxAnyTicks == 9

\* ------------------------------------------------------- program constants
\* if self.ticks % 3 == 0
TimeSlice == 3
\* while kernel.tick() && kernel.ticks < 20
StepLimit == 20

\* --------------------------------------------------------------- data types
\* enum ProcessState
ProcessState == {"Ready", "Running", "Blocked", "Exited"}

\* Option<T>: None is the empty sequence, Some(x) the one-element sequence.
None == << >>
Some(x) == << x >>

\* Process::new(id, name, priority)
Process_new(id, name, priority) ==
    [ id              |-> id,
      name            |-> name,
      state           |-> "Ready",
      program_counter |-> 0,
      priority        |-> priority ]

\* enum KernelCall; only the message variant carries a payload.
Call(kind, msg) == [ kind |-> kind, msg |-> msg ]
Yield == Call("Yield", "")
Exit  == Call("Exit", "")
Block == Call("Block", "")
Message(msg) == Call("Print", msg)

\* The calls handle_kernel_call is driven with when it is called directly.
KernelCalls == { Yield, Exit, Block, Message("hello") }

\* The (name, priority) arguments spawn_task is called with: those of main().
SpawnArgs == << <<"Init_Task", 10>>, <<"WebApp_Worker", 5>>, <<"File_IO_Task", 8>> >>

\* What is remembered of a Process value that went out of scope.
Gone(task) == [ id |-> task.id, state |-> task.state ]

\* One println! line of the kernel: its kind, the task id and the program
\* counter it prints (0 where the line prints none).
Ev(ev, id, pc) == [ ev |-> ev, id |-> id, pc |-> pc ]

\* ---------------------------------------------------------------- state
VARIABLES
    next_pid,      \* Kernel.next_pid
    ready_queue,   \* Kernel.ready_queue : VecDeque<Process>
    running_task,  \* Kernel.running_task : Option<Process>
    ticks,         \* Kernel.ticks
    dropped,       \* id and last state of the Process values that went out of scope
    out,           \* the lines printed by the last operation, in order
    ret,           \* Some(b): the last operation was tick and returned b
    mainpc,        \* position of the driver: "api" (no driver) or a place in main()
    capped,        \* whether the driver loop applies the step limit of main()
    obs            \* what an observer of a run with arbitrary scripts has noted

vars == << next_pid, ready_queue, running_task, ticks, dropped, out, ret, mainpc, capped, obs >>

\* The kernel as one value, so that operations compose as in the code.
Kernel ==
    [ next_pid     |-> next_pid,
      ready_queue  |-> ready_queue,
      running_task |-> running_task,
      ticks        |-> ticks,
      dropped      |-> dropped,
      out          |-> << >> ]

\* Kernel::new()
Kernel_new ==
    [ next_pid     |-> 1,
      ready_queue  |-> << >>,
      running_task |-> None,
      ticks        |-> 0,
      dropped      |-> {},
      out          |-> << >> ]

\* Writes a kernel value back to the variables.
Store(k) ==
    /\ next_pid' = k.next_pid
    /\ ready_queue' = k.ready_queue
    /\ running_task' = k.running_task
    /\ ticks' = k.ticks
    /\ dropped' = k.dropped
    /\ out' = k.out

Emit(k, e) == [k EXCEPT !.out = Append(@, e)]

\* What the observer compares: who holds the slot, the order of the queue and
\* the program counter of every queued task.
Config(slot, queue) ==
    [ slot  |-> [ i \in DOMAIN slot |-> slot[i].id ],
      queue |-> [ i \in DOMAIN queue |-> queue[i].id ],
      pcs   |-> { << queue[i].id, queue[i].program_counter >> : i \in DOMAIN queue } ]

\* The observer's notes on a new kernel: at is the program counter the
\* occupant of the slot was dispatched with, due[id] the earliest tick by which
\* the queued task id has to be dispatched (3 ticks per queue position), mark
\* the configuration when the tick counter last was a multiple of 3.
NoObs == [ at |-> 0, due |-> << >>, mark |-> Config(<< >>, << >>) ]

\* ------------------------------------------------------------ operations
\* As spawn_task, numbering the task by the length of the queue instead of
\* the counter.
spawn_task_numbers_by_queue(k, name, priority) ==
    LET task == Process_new(Len(k.ready_queue) + 1, name, priority)
        k1   == Emit(k, Ev("spawn", task.id, task.program_counter))
    IN  [k1 EXCEPT !.ready_queue = Append(@, task),
                   !.next_pid = @ + 1]

\* Kernel::spawn_task
spawn_task(k, name, priority) ==
    LET task == Process_new(k.next_pid, name, priority)
        k1   == Emit(k, Ev("spawn", task.id, task.program_counter))
    IN  [k1 EXCEPT !.ready_queue = Append(@, task),
                   !.next_pid = @ + 1]

\* As requeue_current, with push_front in place of push_back.
requeue_current_at_front(k) ==
    IF k.running_task = None
    THEN k
    ELSE LET current_task == k.running_task[1]
             k0 == [k EXCEPT !.running_task = None]
         IN  IF current_task.state = "Running"
             THEN LET k1 == Emit(k0, Ev("requeue", current_task.id, 0))
                  IN  [k1 EXCEPT !.ready_queue =
                                    << [current_task EXCEPT !.state = "Ready"] >> \o @]
             ELSE [k0 EXCEPT !.dropped = @ \cup {Gone(current_task)}]

\* As requeue_current, without the write of ProcessState::Ready.
requeue_current_keeps_state(k) ==
    IF k.running_task = None
    THEN k
    ELSE LET current_task == k.running_task[1]
             k0 == [k EXCEPT !.running_task = None]
         IN  IF current_task.state = "Running"
             THEN LET k1 == Emit(k0, Ev("requeue", current_task.id, 0))
                  IN  [k1 EXCEPT !.ready_queue = Append(@, current_task)]
             ELSE [k0 EXCEPT !.dropped = @ \cup {Gone(current_task)}]

\* As requeue_current, re-queueing the task with its program counter reset.
requeue_current_resets_pc(k) ==
    IF k.running_task = None
    THEN k
    ELSE LET current_task == k.running_task[1]
             k0 == [k EXCEPT !.running_task = None]
         IN  IF current_task.state = "Running"
             THEN LET k1 == Emit(k0, Ev("requeue", current_task.id, 0))
                  IN  [k1 EXCEPT !.ready_queue =
                                    Append(@, [current_task EXCEPT !.state = "Ready",
                                                                   !.program_counter = 0])]
             ELSE [k0 EXCEPT !.dropped = @ \cup {Gone(current_task)}]

\* As requeue_current, re-queueing the occupant only if it is Ready.
requeue_current_if_ready(k) ==
    IF k.running_task = None
    THEN k
    ELSE LET current_task == k.running_task[1]
             k0 == [k EXCEPT !.running_task = None]
         IN  IF current_task.state = "Ready"
             THEN LET k1 == Emit(k0, Ev("requeue", current_task.id, 0))
                  IN  [k1 EXCEPT !.ready_queue =
                                    Append(@, [current_task EXCEPT !.state = "Ready"])]
             ELSE [k0 EXCEPT !.dropped = @ \cup {Gone(current_task)}]

\* Kernel::schedule, first half: take() the occupant of the slot and re-queue
\* it if it is still Running; an occupant in another state is dropped.
requeue_current(k) ==
    IF k.running_task = None
    THEN k
    ELSE LET current_task == k.running_task[1]
             k0 == [k EXCEPT !.running_task = None]
         IN  IF current_task.state = "Running"
             THEN LET k1 == Emit(k0, Ev("requeue", current_task.id, 0))
                  IN  [k1 EXCEPT !.ready_queue =
                                    Append(@, [current_task EXCEPT !.state = "Ready"])]
             ELSE [k0 EXCEPT !.dropped = @ \cup {Gone(current_task)}]

\* The position of a highest-priority entry of a non-empty queue.
TopPriority(q) == CHOOSE i \in DOMAIN q : \A j \in DOMAIN q : q[j].priority <= q[i].priority
Without(q, i) == SubSeq(q, 1, i - 1) \o SubSeq(q, i + 1, Len(q))

\* As dispatch_next, picking by the priority field instead of the head.
dispatch_next_by_priority(k) ==
    IF k.ready_queue # << >>
    THEN LET i == TopPriority(k.ready_queue)
             next_task == [k.ready_queue[i] EXCEPT !.state = "Running"]
             k1 == Emit(k, Ev("dispatch", next_task.id, next_task.program_counter))
         IN  [k1 EXCEPT !.ready_queue = Without(@, i),
                        !.running_task = Some(next_task)]
    ELSE Emit(k, Ev("idle", 0, 0))

\* As dispatch_next, with front() in place of pop_front().
dispatch_next_keeps_head(k) ==
    IF k.ready_queue # << >>
    THEN LET next_task == [Head(k.ready_queue) EXCEPT !.state = "Running"]
             k1 == Emit(k, Ev("dispatch", next_task.id, next_task.program_counter))
         IN  [k1 EXCEPT !.running_task = Some(next_task)]
    ELSE Emit(k, Ev("idle", 0, 0))

\* As dispatch_next, counting an idle pass as a tick.
dispatch_next_idle_counts(k) ==
    IF k.ready_queue # << >>
    THEN LET next_task == [Head(k.ready_queue) EXCEPT !.state = "Running"]
             k1 == Emit(k, Ev("dispatch", next_task.id, next_task.program_counter))
         IN  [k1 EXCEPT !.ready_queue = Tail(@),
                        !.running_task = Some(next_task)]
    ELSE [Emit(k, Ev("idle", 0, 0)) EXCEPT !.ticks = @ + 1]

\* As dispatch_next, with pop_back() in place of pop_front().
dispatch_next_from_tail(k) ==
    IF k.ready_queue # << >>
    THEN LET next_task == [k.ready_queue[Len(k.ready_queue)] EXCEPT !.state = "Running"]
             k1 == Emit(k, Ev("dispatch", next_task.id, next_task.program_counter))
         IN  [k1 EXCEPT !.ready_queue = SubSeq(@, 1, Len(@) - 1),
                        !.running_task = Some(next_task)]
    ELSE Emit(k, Ev("idle", 0, 0))

\* Kernel::schedule, second half: pop_front() and dispatch, or idle.
dispatch_next(k) ==
    IF k.ready_queue # << >>
    THEN LET next_task == [Head(k.ready_queue) EXCEPT !.state = "Running"]
             k1 == Emit(k, Ev("dispatch", next_task.id, next_task.program_counter))
         IN  [k1 EXCEPT !.ready_queue = Tail(@),
                        !.running_task = Some(next_task)]
    ELSE Emit(k, Ev("idle", 0, 0))

\* Kernel::schedule
schedule(k) == dispatch_next(requeue_current(k))

\* Kernel::simulate_task_logic
simulate_task_logic(task_id, pc) ==
    CASE task_id = 1 ->
            ( CASE pc = 5  -> Some(Message("Task 1 is halfway!"))
                [] pc = 10 -> Some(Exit)
                [] OTHER   -> None )
      [] task_id = 2 ->
            ( CASE pc = 3  -> Some(Yield)
                [] pc = 8  -> Some(Message("Task 2 is doing work."))
                [] pc = 12 -> Some(Exit)
                [] OTHER   -> None )
      [] task_id = 3 ->
            ( CASE pc = 4  -> Some(Block)
                [] OTHER   -> None )
      [] OTHER -> None

\* As handle_exit, followed by schedule() as in the Block arm.
handle_exit_then_schedule(k) ==
    LET k2 == IF k.running_task # None
              THEN LET task == [k.running_task[1] EXCEPT !.state = "Exited"]
                       k1 == Emit(k, Ev("exited", task.id, 0))
                   IN  [k1 EXCEPT !.running_task = None,
                                  !.dropped = @ \cup {Gone(task)}]
              ELSE k
    IN  schedule(k2)

\* As handle_exit, with as_mut() in place of take(): the slot keeps the task.
handle_exit_keeps_slot(k) ==
    IF k.running_task # None
    THEN LET task == [k.running_task[1] EXCEPT !.state = "Exited"]
             k1 == Emit(k, Ev("exited", task.id, 0))
         IN  [k1 EXCEPT !.running_task = Some(task)]
    ELSE k

\* Kernel::handle_kernel_call, the Exit arm
handle_exit(k) ==
    IF k.running_task # None
    THEN LET task == [k.running_task[1] EXCEPT !.state = "Exited"]
             k1 == Emit(k, Ev("exited", task.id, 0))
         IN  [k1 EXCEPT !.running_task = None,
                        !.dropped = @ \cup {Gone(task)}]
    ELSE k

\* As handle_block, without the schedule() that follows, as in the Exit arm.
handle_block_no_schedule(k) ==
    IF k.running_task # None
    THEN LET task == [k.running_task[1] EXCEPT !.state = "Blocked"]
             k1 == Emit(k, Ev("blocked", task.id, 0))
         IN  [k1 EXCEPT !.running_task = None,
                        !.dropped = @ \cup {Gone(task)}]
    ELSE k

\* As handle_block, with the schedule() inside the if-let: it runs only when
\* a task was taken out of the slot.
handle_block_schedule_if_taken(k) ==
    IF k.running_task # None
    THEN LET task == [k.running_task[1] EXCEPT !.state = "Blocked"]
             k1 == Emit(k, Ev("blocked", task.id, 0))
         IN  schedule([k1 EXCEPT !.running_task = None,
                                 !.dropped = @ \cup {Gone(task)}])
    ELSE k

\* Kernel::handle_kernel_call, the Block arm
handle_block(k) ==
    LET k2 == IF k.running_task # None
              THEN LET task == [k.running_task[1] EXCEPT !.state = "Blocked"]
                       k1 == Emit(k, Ev("blocked", task.id, 0))
                   IN  [k1 EXCEPT !.running_task = None,
                                  !.dropped = @ \cup {Gone(task)}]
              ELSE k
    IN  schedule(k2)

\* Kernel::handle_kernel_call, the message arm
handle_message(k) ==
    IF k.running_task # None
    THEN Emit(k, Ev("says", k.running_task[1].id, 0))
    ELSE k

\* As handle_yield, leaving the reschedule to the next time-slice boundary.
handle_yield_no_schedule(k) == Emit(k, Ev("yield", 0, 0))

\* Kernel::handle_kernel_call, the Yield arm
handle_yield(k) == schedule(Emit(k, Ev("yield", 0, 0)))

\* Kernel::handle_kernel_call
handle_kernel_call(k, call) ==
    CASE call.kind = "Yield" -> handle_yield(k)
      [] call.kind = "Exit"  -> handle_exit(k)
      [] call.kind = "Print" -> handle_message(k)
      [] call.kind = "Block" -> handle_block(k)

\* As preempt, testing the counter as it was before the increment.
preempt_before_increment(k) ==
    IF (k.ticks - 1) % TimeSlice = 0 THEN schedule(k) ELSE k

\* As preempt, with a time slice one tick longer.
preempt_every_fourth(k) ==
    IF k.ticks % (TimeSlice + 1) = 0 THEN schedule(k) ELSE k

\* Kernel::tick, the preemption check
preempt(k) ==
    IF k.ticks % TimeSlice = 0 THEN schedule(k) ELSE k

\* Kernel::tick, the branch taken when the slot holds a task
run_current(k) ==
    LET task == [k.running_task[1] EXCEPT !.program_counter = @ + 1]
        k1 == Emit([k EXCEPT !.running_task = Some(task)],
                   Ev("cpu", task.id, task.program_counter))
        kernel_call == simulate_task_logic(task.id, task.program_counter)
    IN  IF kernel_call # None
        THEN handle_kernel_call(k1, kernel_call[1])
        ELSE k1

\* As tick, rescheduling on an empty slot without the is_empty() test.
tick_never_stops(k) ==
    LET k1 == Emit([k EXCEPT !.ticks = @ + 1], Ev("tick", 0, k.ticks + 1))
        k2 == preempt(k1)
    IN  IF k2.running_task # None
        THEN [ k |-> run_current(k2), ret |-> TRUE ]
        ELSE [ k |-> schedule(k2), ret |-> TRUE ]

\* As tick, stopping on an empty slot without the is_empty() test.
tick_stops_on_empty_slot(k) ==
    LET k1 == Emit([k EXCEPT !.ticks = @ + 1], Ev("tick", 0, k.ticks + 1))
        k2 == preempt(k1)
    IN  IF k2.running_task # None
        THEN [ k |-> run_current(k2), ret |-> TRUE ]
        ELSE [ k |-> Emit(k2, Ev("shutdown", 0, 0)), ret |-> FALSE ]

\* As tick, with the empty-slot test made again after the task has run, so
\* that a slot vacated by the call of this tick is filled in this tick.
tick_fills_vacated_slot(k) ==
    LET k1 == Emit([k EXCEPT !.ticks = @ + 1], Ev("tick", 0, k.ticks + 1))
        k2 == preempt(k1)
        k3 == IF k2.running_task # None THEN run_current(k2) ELSE k2
    IN  IF k3.running_task # None
        THEN [ k |-> k3, ret |-> TRUE ]
        ELSE IF k3.ready_queue = << >>
             THEN [ k |-> Emit(k3, Ev("shutdown", 0, 0)), ret |-> FALSE ]
             ELSE [ k |-> schedule(k3), ret |-> TRUE ]

\* Kernel::tick: the kernel after the call and the value returned
tick(k) ==
    LET k1 == Emit([k EXCEPT !.ticks = @ + 1], Ev("tick", 0, k.ticks + 1))
        k2 == preempt(k1)
    IN  IF k2.running_task # None
        THEN [ k |-> run_current(k2), ret |-> TRUE ]
        ELSE IF k2.ready_queue = << >>
             THEN [ k |-> Emit(k2, Ev("shutdown", 0, 0)), ret |-> FALSE ]
             ELSE [ k |-> schedule(k2), ret |-> TRUE ]

\* ------------------------------------------------- the kernel's interface
\* let mut kernel = Kernel::new();
Init ==
    /\ next_pid = Kernel_new.next_pid
    /\ ready_queue = Kernel_new.ready_queue
    /\ running_task = Kernel_new.running_task
    /\ ticks = Kernel_new.ticks
    /\ dropped = Kernel_new.dropped
    /\ out = Kernel_new.out
    /\ ret = None
    /\ mainpc = "api"
    /\ capped = FALSE
    /\ obs = NoObs

\* The arguments of the n-th spawn_task call: main()'s, in its order, repeated.
SpawnArg(n) == SpawnArgs[((n - 1) % Len(SpawnArgs)) + 1]

\* A call of spawn_task, while fewer than maxTasks tasks were spawned.
ApiSpawn(maxTasks) ==
    /\ mainpc = "api"
    /\ next_pid <= maxTasks
    /\ Store(spawn_task(Kernel, SpawnArg(next_pid)[1], SpawnArg(next_pid)[2]))
    /\ ret' = None
    /\ UNCHANGED << mainpc, capped, obs >>

\* A call of schedule.
Schedule ==
    /\ mainpc = "api"
    /\ Store(schedule(Kernel))
    /\ ret' = None
    /\ UNCHANGED << mainpc, capped, obs >>

\* A call of tick, while ticks < maxTicks.
ApiTick(maxTicks) ==
    /\ mainpc = "api"
    /\ ticks < maxTicks
    /\ LET r == tick(Kernel)
       IN  /\ Store(r.k)
           /\ ret' = Some(r.ret)
    /\ UNCHANGED << mainpc, capped, obs >>

Spawn == ApiSpawn(MaxTasks)
Tick == ApiTick(MaxTicks)

\* A call of handle_kernel_call with any call.
HandleKernelCall ==
    /\ mainpc = "api"
    /\ \E call \in KernelCalls : Store(handle_kernel_call(Kernel, call))
    /\ ret' = None
    /\ UNCHANGED << mainpc, capped, obs >>

Next == Spawn \/ Schedule \/ Tick \/ HandleKernelCall

Spec == Init /\ [][Next]_vars

\* The same interface driven longer with fewer tasks.
SpawnLong == ApiSpawn(MaxLongTasks)
TickLong == ApiTick(MaxLongTicks)

NextLong == SpawnLong \/ Schedule \/ TickLong \/ HandleKernelCall

SpecLong == Init /\ [][NextLong]_vars

\* ------------------------------------------------------------ the driver
\* main(), up to the first spawn_task; the loop runs with or without the
\* step limit of main().
InitMain ==
    /\ next_pid = Kernel_new.next_pid
    /\ ready_queue = Kernel_new.ready_queue
    /\ running_task = Kernel_new.running_task
    /\ ticks = Kernel_new.ticks
    /\ dropped = Kernel_new.dropped
    /\ out = Kernel_new.out
    /\ ret = None
    /\ mainpc = "spawn"
    /\ capped \in BOOLEAN
    /\ obs = NoObs

\* main(): the three spawn_task calls; the arguments are not fixed.
MainSpawn ==
    /\ mainpc = "spawn"
    /\ \E a \in DOMAIN SpawnArgs :
          Store(spawn_task(Kernel, SpawnArgs[a][1], SpawnArgs[a][2]))
    /\ ret' = None
    /\ mainpc' = IF next_pid = Len(SpawnArgs) THEN "schedule" ELSE "spawn"
    /\ UNCHANGED << capped, obs >>

\* main(): kernel.schedule();
MainSchedule ==
    /\ mainpc = "schedule"
    /\ Store(schedule(Kernel))
    /\ ret' = None
    /\ mainpc' = "loop"
    /\ UNCHANGED << capped, obs >>

\* main(): one evaluation of the loop condition
\* kernel.tick() && kernel.ticks < 20
MainTick ==
    /\ mainpc = "loop"
    /\ ticks < MaxRunTicks
    /\ LET r == tick(Kernel)
       IN  /\ Store(r.k)
           /\ ret' = Some(r.ret)
           /\ mainpc' = IF r.ret /\ (capped => r.k.ticks < StepLimit)
                        THEN "loop" ELSE "done"
    /\ UNCHANGED << capped, obs >>

NextMain == MainSpawn \/ MainSchedule \/ MainTick

\* The driver is a sequential program: it keeps taking its next step.
SpecMain == InitMain /\ [][NextMain]_vars /\ WF_vars(NextMain)

\* ------------------------------------------------- arbitrary task scripts
\* What simulate_task_logic can return for a task with any script: no call,
\* or any call. A script is asked about each (task_id, pc) at most once, since
\* ids are unique and a program counter only grows, so every sequence of
\* answers is the answers of some script.
AnyCalls == { None } \cup { Some(call) : call \in KernelCalls }

\* Kernel::tick, the branch taken when the slot holds a task, for a script
\* that answers kernel_call.
run_current_with(k, kernel_call) ==
    LET task == [k.running_task[1] EXCEPT !.program_counter = @ + 1]
        k1 == Emit([k EXCEPT !.running_task = Some(task)],
                   Ev("cpu", task.id, task.program_counter))
    IN  IF kernel_call # None
        THEN handle_kernel_call(k1, kernel_call[1])
        ELSE k1

\* Kernel::tick for a script that answers kernel_call.
tick_with(k, kernel_call) ==
    LET k1 == Emit([k EXCEPT !.ticks = @ + 1], Ev("tick", 0, k.ticks + 1))
        k2 == preempt(k1)
    IN  IF k2.running_task # None
        THEN [ k |-> run_current_with(k2, kernel_call), ret |-> TRUE ]
        ELSE IF k2.ready_queue = << >>
             THEN [ k |-> Emit(k2, Ev("shutdown", 0, 0)), ret |-> FALSE ]
             ELSE [ k |-> schedule(k2), ret |-> TRUE ]

\* The index of the last line of kind ev in o.
LastAt(o, ev) == CHOOSE i \in DOMAIN o : o[i].ev = ev /\ \A j \in (i + 1) .. Len(o) : o[j].ev # ev
Min2(a, b) == IF a <= b THEN a ELSE b
\* The position of the task id in the queue q, from 1.
Place(q, id) == CHOOSE i \in DOMAIN q : q[i].id = id

\* The observer's notes after the step, from the lines it printed and the
\* kernel it left.
Watch ==
    LET dispatched == { out'[i].id : i \in { j \in DOMAIN out' : out'[j].ev = "dispatch" } }
        queued  == { ready_queue[i].id : i \in DOMAIN ready_queue }
        queued1 == { ready_queue'[i].id : i \in DOMAIN ready_queue' }
    IN  [ at   |-> IF running_task' = None THEN 0
                   ELSE IF dispatched # {} THEN out'[LastAt(out', "dispatch")].pc
                   ELSE obs.at,
          due  |-> [ id \in 1 .. (next_pid' - 1) |->
                       IF id \in queued1
                       THEN LET d == ticks' + TimeSlice * Place(ready_queue', id)
                            IN  IF id \in queued /\ id \notin dispatched
                                THEN Min2(obs.due[id], d)
                                ELSE d
                       ELSE IF id \in DOMAIN obs.due THEN obs.due[id] ELSE 0 ],
          mark |-> IF ticks' % TimeSlice = 0
                   THEN Config(running_task', ready_queue')
                   ELSE obs.mark ]

\* A new kernel, set up and run by a harness whose tasks have any scripts.
InitAny ==
    /\ next_pid = Kernel_new.next_pid
    /\ ready_queue = Kernel_new.ready_queue
    /\ running_task = Kernel_new.running_task
    /\ ticks = Kernel_new.ticks
    /\ dropped = Kernel_new.dropped
    /\ out = Kernel_new.out
    /\ ret = None
    /\ mainpc = "setup"
    /\ capped = FALSE
    /\ obs = NoObs

\* spawn_task, before the first tick.
AnySpawn ==
    /\ mainpc = "setup"
    /\ next_pid <= MaxAnyTasks
    /\ Store(spawn_task(Kernel, SpawnArg(next_pid)[1], SpawnArg(next_pid)[2]))
    /\ ret' = None
    /\ obs' = Watch
    /\ UNCHANGED << mainpc, capped >>

\* schedule(), called by the harness as main() does before its loop.
AnySchedule ==
    /\ mainpc = "setup"
    /\ ready_queue # << >> /\ running_task = None
    /\ Store(schedule(Kernel))
    /\ ret' = None
    /\ mainpc' = "run"
    /\ obs' = Watch
    /\ UNCHANGED capped

\* tick, with any answer of the script of the task that executes.
AnyTick ==
    /\ mainpc \in {"setup", "run"}
    /\ ticks < MaxAnyTicks
    /\ \E kernel_call \in AnyCalls :
          LET r == tick_with(Kernel, kernel_call)
          IN  /\ Store(r.k)
              /\ ret' = Some(r.ret)
    /\ mainpc' = "run"
    /\ obs' = Watch
    /\ UNCHANGED capped

NextAny == AnySpawn \/ AnySchedule \/ AnyTick

SpecAny == InitAny /\ [][NextAny]_vars

\* ------------------------------------------- what the properties read
\* The ids held by an Option<Process> or a queue of Process values.
IdsOf(q) == { q[i].id : i \in DOMAIN q }
TrackedIds == IdsOf(running_task) \cup IdsOf(ready_queue)
\* Every Process value the kernel holds.
Tracked == { running_task[i] : i \in DOMAIN running_task }
              \cup { ready_queue[i] : i \in DOMAIN ready_queue }
SpawnedIds == 1 .. (next_pid - 1)
Terminal == {"Exited", "Blocked"}
\* The ids whose task has become Exited or Blocked, wherever the value is.
DeadIds == { d.id : d \in { x \in dropped : x.state \in Terminal } }
              \cup { t.id : t \in { x \in Tracked : x.state \in Terminal } }
LiveIds == SpawnedIds \ DeadIds
Occurrences(id) ==
    Cardinality({ i \in DOMAIN ready_queue : ready_queue[i].id = id })
      + Cardinality({ i \in DOMAIN running_task : running_task[i].id = id })
Pos(q, id) == CHOOSE i \in DOMAIN q : q[i].id = id
Has(o, ev) == \E i \in DOMAIN o : o[i].ev = ev
HasEv(o, ev, id) == \E i \in DOMAIN o : o[i].ev = ev /\ o[i].id = id
First(o, ev) == CHOOSE i \in DOMAIN o : o[i].ev = ev /\ \A j \in 1 .. (i - 1) : o[j].ev # ev
FirstEv(o, ev, id) ==
    CHOOSE i \in DOMAIN o :
        /\ o[i].ev = ev /\ o[i].id = id
        /\ \A j \in 1 .. (i - 1) : ~(o[j].ev = ev /\ o[j].id = id)
Last(o) == o[Len(o)]
\* The step is a call of tick.
IsTick == ticks' = ticks + 1

\* --------------------------------------------------------- properties
\* C1: in every reachable state every live task id (spawned, not Exited or
\* Blocked) occurs exactly once in the current slot and the Ready Queue taken
\* together, and no id occurs twice in them.
C1_LiveExactlyOnce ==
    /\ \A id \in LiveIds : Occurrences(id) = 1
    /\ \A id \in TrackedIds : Occurrences(id) = 1
    /\ TrackedIds \subseteq SpawnedIds

\* C1 witness: after a removal and a re-queue, one task in the slot and
\* another queued behind it.
C1_Witness ==
    /\ running_task # None /\ Len(ready_queue) >= 1
    /\ ticks >= TimeSlice
    /\ dropped # {}
    /\ HasEv(out, "requeue", ready_queue[Len(ready_queue)].id)

\* C2: the occupant of the slot is Running, every queued task is Ready, so at
\* most one tracked task is Running.
C2_SlotRunningQueueReady ==
    /\ \A i \in DOMAIN running_task : running_task[i].state = "Running"
    /\ \A i \in DOMAIN ready_queue : ready_queue[i].state = "Ready"
    /\ Cardinality({ t \in Tracked : t.state = "Running" }) <= 1

\* C2 witness: a task that has run is back in the queue while another runs.
C2_Witness ==
    /\ running_task # None
    /\ \E i \in DOMAIN ready_queue : ready_queue[i].program_counter > 0
    /\ Has(out, "requeue")

\* C3: Exited and Blocked are terminal: a task that has become Exited or
\* Blocked stays so and is in neither the slot nor the Ready Queue in any later
\* state.
C3_TerminalNeverBack ==
    [][ /\ DeadIds \subseteq DeadIds'
        /\ DeadIds' \cap TrackedIds' = {} ]_vars

\* C3 witness: one task Exited, one Blocked, and the kernel still dispatching.
C3_Witness ==
    /\ \E d \in dropped : d.state = "Exited"
    /\ \E d \in dropped : d.state = "Blocked"
    /\ running_task # None
    /\ Has(out, "dispatch")

\* Within the step, a is dispatched before b is, and until a is dispatched it
\* stays queued ahead of b.
DispatchedBefore(a, b) ==
    /\ HasEv(out', "dispatch", b) =>
          /\ HasEv(out', "dispatch", a)
          /\ FirstEv(out', "dispatch", a) < FirstEv(out', "dispatch", b)
    /\ ~HasEv(out', "dispatch", a) =>
          /\ a \in IdsOf(ready_queue')
          /\ b \in IdsOf(ready_queue') =>
                Pos(ready_queue', a) < Pos(ready_queue', b)

\* C4: FIFO. A task that is ahead of another one (earlier in the Ready Queue,
\* or queued while the other still holds the slot, which re-queues behind it)
\* is dispatched strictly before it within every operation, and until it is
\* dispatched the two keep their order in the queue, whatever their priority.
C4_Fifo ==
    [][ \A i \in DOMAIN ready_queue :
          /\ \A j \in (i + 1) .. Len(ready_queue) :
                DispatchedBefore(ready_queue[i].id, ready_queue[j].id)
          /\ \A r \in DOMAIN running_task :
                DispatchedBefore(ready_queue[i].id, running_task[r].id) ]_vars

\* C4 witness: a queue whose order is not the order of the priorities, both
\* tasks re-queued earlier, and the lower-priority head just dispatched from it.
C4_Witness ==
    /\ running_task # None /\ ready_queue # << >>
    /\ running_task[1].priority < ready_queue[1].priority
    /\ running_task[1].program_counter > 0
    /\ ready_queue[1].program_counter > 0
    /\ Last(out) = Ev("dispatch", running_task[1].id, running_task[1].program_counter)

\* schedule() as section 4.1 of the specification words it, on a slot and a
\* queue: the Running occupant goes to the tail as Ready, then the head is
\* popped into the slot as Running.
RefSchedule(slot, queue) ==
    LET q1 == IF slot # None /\ slot[1].state = "Running"
              THEN Append(queue, [slot[1] EXCEPT !.state = "Ready"])
              ELSE queue
    IN  IF q1 # << >>
        THEN [ slot |-> Some([Head(q1) EXCEPT !.state = "Running"]), queue |-> Tail(q1) ]
        ELSE [ slot |-> None, queue |-> << >> ]

\* The step is a call of schedule() and nothing else: its first line is one
\* of the three the scheduler prints.
IsSchedule == out' # << >> /\ out'[1].ev \in {"requeue", "dispatch", "idle"}

\* C10: schedule() appends the Running occupant of the slot to the tail of
\* the Ready Queue as Ready, then pops the head into the slot as Running; the
\* other entries keep their order; slot empty and queue [1,2,3] give slot 1 and
\* queue [2,3].
C10_Schedule ==
    [][ IsSchedule =>
          /\ running_task' = RefSchedule(running_task, ready_queue).slot
          /\ ready_queue' = RefSchedule(running_task, ready_queue).queue
          /\ (running_task = None /\ Len(ready_queue) = 3) =>
                /\ running_task' = Some([ready_queue[1] EXCEPT !.state = "Running"])
                /\ ready_queue' = << ready_queue[2], ready_queue[3] >>
          /\ UNCHANGED << next_pid, ticks, dropped >> ]_vars

\* C10 witness: scenario 2, the first schedule() after three spawns.
C10_Witness ==
    /\ out = << Ev("dispatch", 1, 0) >>
    /\ running_task # None /\ running_task[1].id = 1 /\ running_task[1].state = "Running"
    /\ Len(ready_queue) = 2 /\ ready_queue[1].id = 2 /\ ready_queue[2].id = 3
    /\ ticks = 0

\* C10 second witness state: a schedule() that re-queued behind a waiting task.
C10_RequeueReached ==
    /\ Len(out) = 2 /\ out[1].ev = "requeue" /\ out[2].ev = "dispatch"
    /\ out[1].id # out[2].id
    /\ Len(ready_queue) = 2

\* The slot and the queue at the moment the task of this tick executes: after
\* the preemption check, which schedules on multiples of the time slice.
AtRun ==
    IF ticks' % TimeSlice = 0
    THEN RefSchedule(running_task, ready_queue)
    ELSE [ slot |-> running_task, queue |-> ready_queue ]
\* The task of this tick after its program-counter increment.
Ran == [AtRun.slot[1] EXCEPT !.program_counter = @ + 1]
\* Where the "[CPU] Running" line of the step is.
CpuAt == First(out', "cpu")
\* The step is a tick whose task made the call that prints the line ev.
Delivers(ev) ==
    /\ IsTick /\ Has(out', "cpu")
    /\ Len(out') > CpuAt /\ out'[CpuAt + 1].ev = ev
SchedulerLines == {"requeue", "dispatch", "idle"}

\* C6: on a tick whose incremented counter is a multiple of 3 schedule() runs
\* before the program-counter increment: the occupant is re-queued first, the
\* former queue head is dispatched and is the task that executes, and the
\* former occupant is at the queue tail; on other ticks the preemption check
\* schedules nothing: the occupant itself executes, and an empty slot executes
\* nothing.
C6_Preemption ==
    [][ IsTick =>
          /\ out'[1] = Ev("tick", 0, ticks + 1)
          /\ IF ticks' % TimeSlice = 0
             THEN /\ out'[2].ev \in SchedulerLines
                  /\ running_task # None => out'[2] = Ev("requeue", running_task[1].id, 0)
                  /\ Has(out', "cpu") => CpuAt > 2 /\ out'[CpuAt - 1].ev = "dispatch"
                  /\ ready_queue # << >> =>
                        /\ Has(out', "cpu")
                        /\ out'[CpuAt - 1] = Ev("dispatch", ready_queue[1].id,
                                                ready_queue[1].program_counter)
                        /\ out'[CpuAt] = Ev("cpu", ready_queue[1].id,
                                            ready_queue[1].program_counter + 1)
                        /\ Last(out').ev \in {"cpu", "says"} =>
                              /\ running_task' = Some([ready_queue[1] EXCEPT
                                                         !.state = "Running",
                                                         !.program_counter = @ + 1])
                              /\ ready_queue' = Tail(ready_queue) \o
                                    [ i \in DOMAIN running_task |->
                                        [running_task[i] EXCEPT !.state = "Ready"] ]
             ELSE /\ running_task # None =>
                        out'[2] = Ev("cpu", running_task[1].id,
                                     running_task[1].program_counter + 1)
                  /\ running_task = None => ~Has(out', "cpu")
                  /\ ~Has(out', "requeue") \/ Has(out', "yield") ]_vars

\* C6 witness: a tick on a multiple of 3 that re-queued the occupant behind a
\* waiting task and executed the former head.
C6_Witness ==
    /\ ticks > 0 /\ ticks % TimeSlice = 0
    /\ Len(out) = 4
    /\ out[2].ev = "requeue" /\ out[3].ev = "dispatch" /\ out[4].ev = "cpu"
    /\ out[2].id # out[3].id /\ out[4].id = out[3].id
    /\ ready_queue # << >> /\ Last(ready_queue).id = out[2].id
    /\ running_task # None /\ running_task[1].id = out[3].id

\* C7: a tick that delivers Block marks the running task Blocked, drops it and
\* runs schedule() in the same tick: afterwards the task is in neither slot
\* nor queue, and the slot holds as Running the task that headed the queue when
\* Block was handled, or is empty if the queue was empty.
C7_BlockInTick ==
    [][ Delivers("blocked") =>
          /\ out'[CpuAt + 1] = Ev("blocked", Ran.id, 0)
          /\ Ran.id \notin TrackedIds'
          /\ dropped' = dropped \cup { [ id |-> Ran.id, state |-> "Blocked" ] }
          /\ Len(out') = CpuAt + 2 /\ Last(out').ev \in {"dispatch", "idle"}
          /\ IF AtRun.queue # << >>
             THEN /\ running_task' = Some([Head(AtRun.queue) EXCEPT !.state = "Running"])
                  /\ ready_queue' = Tail(AtRun.queue)
             ELSE /\ running_task' = None
                  /\ ready_queue' = << >> ]_vars

\* C7 witness: Block delivered on a tick off the time-slice boundary with a
\* task waiting, which now holds the slot.
C7_Witness ==
    /\ ticks % TimeSlice # 0
    /\ out # << >> /\ out[1].ev = "tick"
    /\ Has(out, "blocked") /\ Last(out).ev = "dispatch"
    /\ running_task # None /\ running_task[1].id = Last(out).id
    /\ [ id |-> 3, state |-> "Blocked" ] \in dropped

\* C8: a tick that delivers Exit takes the task out of the slot and marks it
\* Exited; the handler runs no schedule(), the Ready Queue is unchanged, and
\* the slot is empty when the tick returns; an empty slot is filled only by a
\* schedule(): on a later tick by the preemption check on a multiple of 3 (the
\* dispatched task then executes), otherwise by the empty-slot reschedule (it
\* does not execute in that tick).
C8_ExitInTick ==
    [][ /\ Delivers("exited") =>
            /\ Last(out') = Ev("exited", Ran.id, 0)
            /\ running_task' = None
            /\ Ran.id \notin TrackedIds'
            /\ dropped' = dropped \cup { [ id |-> Ran.id, state |-> "Exited" ] }
            /\ ready_queue' = AtRun.queue
            /\ ret' = Some(TRUE)
        /\ (running_task = None /\ running_task' # None) => Has(out', "dispatch")
        /\ (IsTick /\ running_task = None /\ ready_queue # << >>) =>
            IF ticks' % TimeSlice = 0
            THEN /\ out'[2] = Ev("dispatch", ready_queue[1].id, ready_queue[1].program_counter)
                 /\ out'[3] = Ev("cpu", ready_queue[1].id, ready_queue[1].program_counter + 1)
            ELSE /\ out' = << out'[1],
                              Ev("dispatch", ready_queue[1].id, ready_queue[1].program_counter) >>
                 /\ running_task' = Some([ready_queue[1] EXCEPT !.state = "Running"])
                 /\ ready_queue' = Tail(ready_queue) ]_vars

\* C8 witness: Exit delivered by a tick while another task waits: the slot is
\* empty and the queue is not.
C8_Witness ==
    /\ out # << >> /\ out[1].ev = "tick"
    /\ Last(out).ev = "exited"
    /\ running_task = None /\ ready_queue # << >>
    /\ ret = Some(TRUE)

\* C8: the other case, Exit delivered on a multiple of 3, after the preemption
\* check of the same tick re-queued and dispatched.
C8_BoundaryReached ==
    /\ ticks > 0 /\ ticks % TimeSlice = 0
    /\ out # << >> /\ out[1].ev = "tick" /\ out[2].ev = "requeue"
    /\ Last(out).ev = "exited"
    /\ running_task = None /\ ready_queue # << >>

\* C9: a tick that delivers Yield runs schedule() in the same tick whatever
\* the tick counter is: the yielding task goes to the tail of the Ready Queue
\* as Ready and the task that headed the queue becomes Running in the slot; if
\* the queue was empty the yielding task itself is dispatched again.
C9_YieldInTick ==
    [][ Delivers("yield") =>
          /\ Len(out') = CpuAt + 3
          /\ out'[CpuAt + 2] = Ev("requeue", Ran.id, 0)
          /\ out'[CpuAt + 3].ev = "dispatch"
          /\ IF AtRun.queue # << >>
             THEN /\ running_task' = Some([Head(AtRun.queue) EXCEPT !.state = "Running"])
                  /\ ready_queue' = Append(Tail(AtRun.queue), [Ran EXCEPT !.state = "Ready"])
             ELSE /\ running_task' = Some(Ran)
                  /\ ready_queue' = << >> ]_vars

\* C9 witness: Yield delivered on a tick off the time-slice boundary with a
\* task waiting: the yielder is at the tail and the former head runs.
C9_Witness ==
    /\ ticks % TimeSlice # 0
    /\ out # << >> /\ out[1].ev = "tick" /\ Has(out, "yield")
    /\ ready_queue # << >> /\ Last(ready_queue).id = 2
    /\ Last(ready_queue).program_counter = 3
    /\ running_task # None /\ running_task[1].id # 2

\* C9: the other case, the yielding task dispatched again from an empty queue.
C9_AloneReached ==
    /\ out # << >> /\ out[1].ev = "tick" /\ Has(out, "yield")
    /\ ready_queue = << >>
    /\ running_task # None /\ running_task[1].id = 2

\* C5: the state the three-task configuration ends in: slot and queue empty,
\* tasks 1 and 2 Exited, task 3 Blocked, and the last tick returned false.
C5_Final ==
    /\ running_task = None /\ ready_queue = << >>
    /\ dropped = { [ id |-> 1, state |-> "Exited" ],
                   [ id |-> 2, state |-> "Exited" ],
                   [ id |-> 3, state |-> "Blocked" ] }
    /\ ret = Some(FALSE)
    /\ mainpc = "done"

\* C5: with the three scripted tasks spawned and no step cap, repeated tick
\* calls eventually empty the slot and the Ready Queue with tasks 1 and 2
\* Exited and task 3 Blocked, and the tick called in that state returns false.
C5_RunsToCompletion ==
    /\ (~capped) ~> C5_Final
    /\ [][ (mainpc = "loop" /\ running_task = None /\ ready_queue = << >>) =>
             (ret' = Some(FALSE) /\ mainpc' = "done") ]_vars
    /\ [][ (~capped /\ mainpc' = "done") => C5_Final' ]_vars

\* C5 witness: the uncapped run has ended in that state, past the step limit
\* of main().
C5_Witness == ~capped /\ C5_Final /\ ticks > StepLimit

\* The step is a call of spawn_task: its first line is the spawn line.
IsSpawn == out' # << >> /\ out'[1].ev = "spawn"
\* The ids of a queue, in its order.
IdSeq(q) == [ i \in DOMAIN q |-> q[i].id ]
\* Every id a task was ever given: tracked, or of a value that went away.
UsedIds == TrackedIds \cup { d.id : d \in dropped }

\* C11: spawn_task gives the new task the next id of 1, 2, 3, ..., larger
\* than every id given before and never one used before, also after tasks have
\* Exited or Blocked; the task is appended at the tail of the Ready Queue as
\* Ready with program_counter 0 and the slot is unchanged; the third spawn, on
\* queue [1,2] with an empty slot, gives queue [1,2,3] and an empty slot.
C11_SpawnIds ==
    [][ IsSpawn =>
          /\ next_pid' = next_pid + 1
          /\ ready_queue' = Append(ready_queue, Last(ready_queue'))
          /\ Last(ready_queue').id = next_pid
          /\ Last(ready_queue').state = "Ready"
          /\ Last(ready_queue').program_counter = 0
          /\ \A id \in UsedIds : id < next_pid
          /\ UsedIds \subseteq 1 .. (next_pid - 1)
          /\ UNCHANGED << running_task, ticks, dropped >>
          /\ (running_task = None /\ IdSeq(ready_queue) = << 1, 2 >> /\ next_pid = 3) =>
                (running_task' = None /\ IdSeq(ready_queue') = << 1, 2, 3 >>) ]_vars

\* C11 witness: a spawn after one task Exited and the other Blocked, when the
\* kernel tracks no task: the new task still gets the next id, 3.
C11_Witness ==
    /\ out = << Ev("spawn", 3, 0) >>
    /\ dropped = { [ id |-> 1, state |-> "Exited" ], [ id |-> 2, state |-> "Blocked" ] }
    /\ IdSeq(ready_queue) = << 3 >>
    /\ next_pid = 4

\* C11 second witness state: scenario 1, three spawns from a fresh kernel.
C11_ThreeSpawnsReached ==
    /\ out = << Ev("spawn", 3, 0) >>
    /\ running_task = None /\ IdSeq(ready_queue) = << 1, 2, 3 >>
    /\ ticks = 0 /\ dropped = {}

\* The step ran schedule() at least once, alone or inside another operation.
RanSchedule == \E i \in DOMAIN out' : out'[i].ev \in SchedulerLines

\* C12: schedule() called with the slot empty and the Ready Queue empty
\* changes nothing: slot and queue stay empty and no task value goes away; and
\* in every state schedule() leaves the tick counter and the next-id counter
\* unchanged, also when it runs inside tick or the call dispatcher, where the
\* tick counter moves only by the one increment of tick itself.
C12_ScheduleFrame ==
    [][ /\ IsSchedule =>
            /\ ticks' = ticks /\ next_pid' = next_pid
            /\ (running_task = None /\ ready_queue = << >>) =>
                  /\ running_task' = None /\ ready_queue' = << >>
                  /\ dropped' = dropped
                  /\ out' = << Ev("idle", 0, 0) >>
        /\ RanSchedule =>
            /\ next_pid' = next_pid
            /\ ticks' = IF out'[1].ev = "tick" THEN ticks + 1 ELSE ticks ]_vars

\* C12 witness: schedule() called on an empty slot and an empty queue after
\* tasks were spawned and ticks counted: idle, counters as they were.
C12_Witness ==
    /\ out = << Ev("idle", 0, 0) >>
    /\ running_task = None /\ ready_queue = << >>
    /\ ticks > 0 /\ next_pid > 1

\* The kernel is left as it was: slot, queue, counters and dropped values.
SameKernel(k) ==
    /\ k.running_task = running_task /\ k.ready_queue = ready_queue
    /\ k.ticks = ticks /\ k.next_pid = next_pid /\ k.dropped = dropped

C13_IdleReached ==
    /\ out = << Ev("yield", 0, 0), Ev("idle", 0, 0) >>
    /\ running_task = None /\ dropped # {}

\* The step is a call of tick: its first line is the tick line.
TickStep == out' # << >> /\ out'[1].ev = "tick"

\* C14: tick() returns false exactly when, after its preemption check, the
\* slot and the Ready Queue are both empty, and true in every other case; in
\* both cases it increments the tick counter by exactly 1 (and nothing else
\* changes the counter); a tick that returns false changes nothing else.
C14_TickReturn ==
    [][ /\ TickStep =>
            /\ ticks' = ticks + 1
            /\ ret' = Some(~(AtRun.slot = None /\ AtRun.queue = << >>))
            /\ ret' = Some(FALSE) =>
                  /\ out' = << Ev("tick", 0, ticks + 1) >> \o
                            (IF ticks' % TimeSlice = 0 THEN << Ev("idle", 0, 0) >> ELSE << >>)
                            \o << Ev("shutdown", 0, 0) >>
                  /\ UNCHANGED << running_task, ready_queue, next_pid, dropped >>
        /\ ticks' # ticks => TickStep
        /\ ret' # None => TickStep ]_vars

\* C14 witness: a tick on a multiple of 3 found slot and queue empty after
\* its (idle) preemption check and returned false, the counter incremented.
C14_Witness ==
    /\ ret = Some(FALSE)
    /\ ticks > 0 /\ ticks % TimeSlice = 0
    /\ out = << Ev("tick", 0, ticks), Ev("idle", 0, 0), Ev("shutdown", 0, 0) >>
    /\ dropped # {}

\* C14 second witness state: a tick that found the slot empty and the queue
\* not: it returned true.
C14_TrueOnEmptySlotReached ==
    /\ ret = Some(TRUE)
    /\ Len(out) = 2 /\ out[1].ev = "tick" /\ out[2].ev = "dispatch"
    /\ ticks % TimeSlice # 0

\* The last operation was a call of tick.
AfterTick == out # << >> /\ out[1].ev = "tick"

\* C15 as stated: whenever the slot is empty after step 3 of a tick, also
\* when the call handled in that tick vacated it, and the Ready Queue is not
\* empty, schedule() fills the slot in that tick: no tick ends with an empty
\* slot while the Ready Queue is non-empty.
C15_NoTickEndsIdle ==
    AfterTick => ~(running_task = None /\ ready_queue # << >>)

\* C15, amended: the empty-slot schedule() of a tick runs only when the slot
\* is empty after the preemption check, in place of executing a task: with a
\* non-empty Ready Queue it dispatches the head, which does not execute in
\* that tick. A slot vacated by the call handled in the tick is filled in that
\* tick only by the schedule() of Block or Yield; after Exit nothing more runs,
\* so a tick ends with an empty slot and a non-empty Ready Queue exactly when
\* it delivered Exit while tasks were queued.
C15_EmptySlotReschedule ==
    [][ TickStep =>
          /\ (AtRun.slot = None /\ AtRun.queue # << >>) =>
                /\ Last(out') = Ev("dispatch", AtRun.queue[1].id,
                                   AtRun.queue[1].program_counter)
                /\ ~Has(out', "cpu")
                /\ running_task' = Some([AtRun.queue[1] EXCEPT !.state = "Running"])
                /\ ready_queue' = Tail(AtRun.queue)
          /\ AtRun.slot # None =>
                /\ Has(out', "cpu")
                /\ (running_task' = None /\ ready_queue' # << >>)
                      <=> (Delivers("exited") /\ AtRun.queue # << >>)
                /\ Delivers("exited") =>
                      /\ Len(out') = CpuAt + 1
                      /\ running_task' = None /\ ready_queue' = AtRun.queue
          /\ (running_task' = None /\ ready_queue' # << >>) =>
                Last(out').ev = "exited" ]_vars

\* C15 witness: a tick off the time-slice boundary delivered Exit to task 1
\* while task 2 waits: the tick ended with the slot empty and task 2 queued.
C15_Witness ==
    /\ ticks % TimeSlice # 0
    /\ out = << Ev("tick", 0, ticks), Ev("cpu", 1, 10), Ev("exited", 1, 0) >>
    /\ running_task = None /\ IdSeq(ready_queue) = << 2 >>

\* C15 second witness state: a tick found the slot empty after an Exit and
\* dispatched the head without executing it.
C15_FilledNextTickReached ==
    /\ ticks % TimeSlice # 0
    /\ Len(out) = 2 /\ out[1] = Ev("tick", 0, ticks)
    /\ out[2].ev = "dispatch" /\ out[2].id = 2
    /\ [ id |-> 1, state |-> "Exited" ] \in dropped
    /\ running_task # None /\ running_task[1].id = 2
    /\ running_task[1].program_counter = out[2].pc

\* The lines a handled kernel call prints first.
CallLines == {"yield", "exited", "says", "blocked"}
\* How many lines of o are of one of the kinds evs.
Count(o, evs) == Cardinality({ i \in DOMAIN o : o[i].ev \in evs })
\* The tracked tasks whose program counter differs after the step.
Advanced ==
    { t \in Tracked : \E u \in Tracked' :
                        u.id = t.id /\ u.program_counter # t.program_counter }

\* C16: a program counter starts at 0, never decreases and is kept across
\* re-queue and re-dispatch; a tick increments the counter of at most one task,
\* by exactly 1: the task in the slot after the preemption check; at most one
\* kernel call is handled per tick, against that task; a tick that finds the
\* slot empty increments none, and no other operation changes a counter.
C16_ProgramCounter ==
    [][ /\ \A u \in Tracked' : u.id \notin TrackedIds => u.program_counter = 0
        /\ \A t \in Tracked : \A u \in Tracked' :
              u.id = t.id =>
                 /\ u.program_counter >= t.program_counter
                 /\ u.program_counter <= t.program_counter + 1
        /\ Cardinality(Advanced) <= 1
        /\ Count(out', {"cpu"}) <= 1
        /\ ~TickStep => (Advanced = {} /\ ~Has(out', "cpu"))
        /\ TickStep =>
              /\ Count(out', CallLines) <= 1
              /\ Has(out', "cpu") <=> AtRun.slot # None
              /\ AtRun.slot = None => Advanced = {}
              /\ AtRun.slot # None =>
                    /\ out'[CpuAt] = Ev("cpu", Ran.id, AtRun.slot[1].program_counter + 1)
                    /\ \A t \in Advanced : t.id = Ran.id
                    /\ \A u \in Tracked' :
                          u.id = Ran.id => u.program_counter = Ran.program_counter
                    /\ Count(out', CallLines) = 1 =>
                          /\ out'[CpuAt + 1].ev \in CallLines
                          /\ out'[CpuAt + 1].ev # "yield" => out'[CpuAt + 1].id = Ran.id
                          /\ out'[CpuAt + 1].ev = "yield" =>
                                out'[CpuAt + 2] = Ev("requeue", Ran.id, 0) ]_vars

\* C16 witness: a task that was re-queued with a counter above 0 is
\* dispatched again with that counter on a multiple of 3 and incremented by 1,
\* while the re-queued former occupant keeps its own counter.
C16_Witness ==
    /\ ticks > 0 /\ ticks % TimeSlice = 0
    /\ Len(out) = 4 /\ out[2].ev = "requeue"
    /\ out[3].ev = "dispatch" /\ out[3].pc > 0
    /\ out[4] = Ev("cpu", out[3].id, out[3].pc + 1)
    /\ running_task # None /\ running_task[1].program_counter = out[3].pc + 1
    /\ ready_queue # << >> /\ Last(ready_queue).id = out[2].id
    /\ Last(ready_queue).program_counter > 0

\* C16 second witness state: a tick that handled a call against the task it
\* had just incremented.
C16_CallReached ==
    /\ AfterTick /\ Has(out, "yield") /\ ready_queue # << >>
    /\ Last(ready_queue).id = 2 /\ Last(ready_queue).program_counter = 3

\* The ids named by the Exit and Block lines of the step, with the state the
\* line reports.
Removed ==
    { [ id |-> out'[i].id, state |-> IF out'[i].ev = "exited" THEN "Exited" ELSE "Blocked" ] :
        i \in { j \in DOMAIN out' : out'[j].ev \in {"exited", "blocked"} } }

\* C17: schedule() never loses a task. The occupant of the slot is Running
\* whenever schedule() can be invoked, so schedule() always re-queues it: the
\* only Process values that ever go away are Exited or Blocked ones, a call of
\* schedule() leaves the set of ids in slot and queue as it was, and in every
\* operation the ids that leave slot and queue are exactly those of its Exit or
\* Block line, at most one per call.
C17_ScheduleLosesNothing ==
    [][ /\ \A i \in DOMAIN running_task : running_task[i].state = "Running"
        /\ IsSchedule =>
              /\ TrackedIds' = TrackedIds
              /\ dropped' = dropped
              /\ running_task # None => out'[1] = Ev("requeue", running_task[1].id, 0)
        /\ Count(out', {"exited", "blocked"}) <= 1
        /\ TrackedIds \ TrackedIds' = { r.id : r \in Removed }
        /\ dropped' = dropped \cup Removed
        /\ \A d \in dropped' : d.state \in Terminal
        /\ TrackedIds' \ TrackedIds \subseteq
              { out'[i].id : i \in { j \in DOMAIN out' : out'[j].ev = "spawn" } } ]_vars

\* C17 witness: schedule() called with a task that has run in the slot and
\* two tasks queued: the occupant is at the tail and all three ids are tracked.
C17_Witness ==
    /\ Len(out) = 2 /\ out[1].ev = "requeue" /\ out[2].ev = "dispatch"
    /\ Cardinality(TrackedIds) = 3
    /\ Last(ready_queue).id = out[1].id
    /\ Last(ready_queue).program_counter > 0
    /\ running_task # None /\ running_task[1].id = out[2].id

\* C17 second witness state: a Block removed one id and the schedule() that
\* followed kept the other two.
C17_RemovalReached ==
    /\ Has(out, "blocked") /\ Last(out).ev = "dispatch"
    /\ Cardinality(TrackedIds) = 2 /\ Cardinality(dropped) = 1

\* The program counter the task of the cpu line i of the step was dispatched
\* with: the one of the last dispatch line before it, or else the one noted for
\* the occupant the step found in the slot.
StartOf(i) ==
    LET before == { j \in 1 .. (i - 1) : out'[j].ev = "dispatch" }
    IN  IF before # {}
        THEN out'[CHOOSE j \in before : \A l \in before : l <= j].pc
        ELSE obs.at

\* C18: for any task scripts, from the dispatch of a task into the slot to
\* the event that takes it out (preemption, Yield, Exit or Block) its program
\* counter advances by at most 3: every execution of a step leaves the counter
\* between 1 and 3 above the counter at dispatch, and the occupant's counter is
\* never more than 3 above it.
C18_SliceBound ==
    [][ /\ \A i \in DOMAIN out' :
              out'[i].ev = "cpu" => (out'[i].pc - StartOf(i)) \in 1 .. TimeSlice
        /\ running_task' # None =>
              (running_task'[1].program_counter - obs'.at) \in 0 .. TimeSlice ]_vars

\* C18 witness: a task dispatched again with a counter above 0 has advanced
\* by the full 3 while another task waits.
C18_Witness ==
    /\ mainpc = "run"
    /\ running_task # None /\ ready_queue # << >>
    /\ obs.at > 0
    /\ running_task[1].program_counter = obs.at + TimeSlice

\* C19: for any task scripts, while tick is called and no task is spawned, a
\* task at position p (from 0) of the Ready Queue is dispatched within
\* 3*(p+1) ticks: no task is still waiting in the queue when the tick counter
\* has reached the earliest of the deadlines noted for it while it waited, and
\* a task that is dispatched is dispatched by a tick no later than that.
C19_DispatchedInTime ==
    [][ /\ \A i \in DOMAIN ready_queue' :
              ticks' < obs'.due[ready_queue'[i].id]
        /\ \A i \in DOMAIN ready_queue :
              HasEv(out', "dispatch", ready_queue[i].id) =>
                 ticks' <= obs.due[ready_queue[i].id] ]_vars

\* C19 witness: with three tasks, task 3 waited behind task 2 and was
\* dispatched, for its first step, by the last tick its position allowed.
C19_Witness ==
    /\ mainpc = "run"
    /\ ticks = 2 * TimeSlice
    /\ running_task # None /\ running_task[1].id = 3
    /\ running_task[1].program_counter = 1
    /\ HasEv(out, "dispatch", 3)
    /\ obs.due[3] = ticks
    /\ Cardinality(TrackedIds) = 3

\* The configuration the step leaves.
ConfigAfter == Config(running_task', ready_queue')

====
